---- MODULE Spec2Model ----
(***************************************************************************)
(* A model of containerized (src/containerized/__main__.py): the name      *)
(* validator, the build-log scanner of build_podman_image, the shell       *)
(* prober, the sequencing of main and the implicit-`run` dispatcher.       *)
(*                                                                         *)
(* Text is a sequence of strings whose concatenation is the text.  Build   *)
(* log lines, argv tokens, Env entries and base names are written one      *)
(* character per element, so that startswith, `in`, strip and split are    *)
(* computed on characters; a non-ASCII character is written as its code    *)
(* point ("U+00E9").  Literal parts of printed messages are one element.   *)
(* A Python Optional is a sequence of length 0 (None) or 1.                *)
(***************************************************************************)
EXTENDS Integers, Sequences, FiniteSets, TLC

VARIABLES
    \* ---- main(), after parse_args ----
    pc,               \* position in main / build_podman_image
    directory_is_dir, \* os.path.isdir(directory)
    file_exists,      \* os.path.exists(containerfile_path)
    command,          \* args.command
    base_name,        \* args.base_name
    run_args,         \* args.args (run only)
    volume,           \* args.volume (None is <<>>)
    containerfile_path,
    image_name,
    log,              \* everything the build subprocess writes (fixed at Popen)
    proc_stdout,      \* the lines of proc.stdout not yet read
    returncode,       \* proc.returncode
    full_output,      \* build_podman_image's buffer, with each line's log position
    cache_used,
    step,             \* Optional text
    inspect_result,   \* what `podman inspect` answered (Optional)
    default_shell,    \* Optional text
    output,           \* what has been printed, in order
    commands,         \* the external commands run, in order (their argv)
    raised,           \* Optional exception in flight / that ended the process
    exit_code,        \* Optional process exit status
    \* ---- the dispatcher's rewriting of sys.argv ----
    dpc,
    argv0,            \* sys.argv as given
    argv,             \* sys.argv
    command_index,
    expect_arg_value,
    arg_pos,          \* index of the loop `for arg in sys.argv[1:]`
    \* ---- is_valid_basename ----
    npc,
    name_in,
    name_ok

mainVars == <<pc, directory_is_dir, file_exists, command, base_name, run_args, volume,
              containerfile_path, image_name, log, proc_stdout, returncode,
              full_output, cache_used, step, inspect_result, default_shell,
              output, commands, raised, exit_code>>
dispVars == <<dpc, argv0, argv, command_index, expect_arg_value, arg_pos>>
nameVars == <<npc, name_in, name_ok>>
vars == <<mainVars, dispVars, nameVars>>

\* ------------------------------------------------------------------ bounds
MaxLogLen == 3
MaxEnv == 2
MaxArgv == 4
MaxPad == 2

\* -------------------------------------------------------------------- text
None == <<>>
Some(x) == <<x>>

StartsWith(s, p) == Len(s) >= Len(p) /\ SubSeq(s, 1, Len(p)) = p

Contains(s, p) == \E i \in 0..(Len(s) - Len(p)) : SubSeq(s, i + 1, i + Len(p)) = p

Whitespace == {" ", "\n", "\t", "\r"}

RECURSIVE LStrip(_)
LStrip(s) == IF s # <<>> /\ Head(s) \in Whitespace THEN LStrip(Tail(s)) ELSE s

RECURSIVE RStrip(_)
RStrip(s) ==
    IF s # <<>> /\ s[Len(s)] \in Whitespace THEN RStrip(SubSeq(s, 1, Len(s) - 1)) ELSE s

Strip(s) == RStrip(LStrip(s))

SeqsUpTo(S, n) == UNION {[1..k -> S] : k \in 0..n}

Repeat(c, n) == [i \in 1..n |-> c]

\* --------------------------------------------------------- literal texts
STEP == <<"S", "T", "E", "P">>
STEP_1 == <<"S", "T", "E", "P", " ", "1", "/">>
USING_CACHE == <<"-", "-", ">", " ", "U", "s", "i", "n", "g", " ", "c", "a", "c", "h", "e">>

LineStep1 == <<"S", "T", "E", "P", " ", "1", "/", "3", "\n">>
LineStep2 == <<"S", "T", "E", "P", " ", "2", "/", "3", "\n">>
LineStep3 == <<"S", "T", "E", "P", " ", "3", "/", "3", "\n">>
LineStep10 == <<"S", "T", "E", "P", " ", "1", "0", "/", "1", "2", "\n">>
LineCache == USING_CACHE \o <<"\n">>
LinePull == <<"P", "u", "l", "l", "i", "n", "g", " ", "i", "m", "a", "g", "e",
              ".", ".", ".", "\n">>

Lines == {LineStep1, LineStep2, LineStep10, LineCache, LinePull}

\* The sample logs of the specification's testable properties.
SampleLogPull == <<LineStep1, LinePull, LineStep2, LineCache, LineStep3, LineCache>>
SampleLogNoPull == <<LineStep1, LineStep2, LineCache, LineStep3, LineCache>>

Logs == SeqsUpTo(Lines, MaxLogLen) \cup {SampleLogPull, SampleLogNoPull}

\* ----------------------------------------------------- is_valid_basename
AsciiLower == {"a", "b", "c", "d", "e", "f", "g", "h", "i", "j", "k", "l", "m",
               "n", "o", "p", "q", "r", "s", "t", "u", "v", "w", "x", "y", "z"}
AsciiDigit == {"0", "1", "2", "3", "4", "5", "6", "7", "8", "9"}
\* Characters outside ASCII for which Python's str.islower / str.isdigit hold:
\* U+00E9 (e acute) and U+00DF (sharp s) are lowercase letters, U+0663
\* (Arabic-Indic digit three) and U+00B2 (superscript two) are digits.
NonAsciiLower == {"U+00E9", "U+00DF"}
NonAsciiDigit == {"U+0663", "U+00B2"}

\* str.islower() of one character
IsLower(char) == char \in AsciiLower \cup NonAsciiLower

\* str.isdigit() of one character
IsDigit(char) == char \in AsciiDigit \cup NonAsciiDigit

MaxNameLen == 128

is_valid_basename(name) ==
    IF ~(1 <= Len(name) /\ Len(name) <= MaxNameLen)
    THEN FALSE
    ELSE \A i \in 1..Len(name) :
            IsLower(name[i]) \/ IsDigit(name[i]) \/ name[i] \in {"-", "."}

\* ------------------------------------------------------ paths and names
Directory == <<"/ctx">>

\* os.path.join(directory, f"{base_name}.Containerfile")
ContainerfileOf(directory, name) == directory \o <<"/">> \o name \o <<".Containerfile">>

get_image_name(name) == name \o <<":latest">>

\* What find_containerfile does: the path (Optional) and the exception (Optional).
find_containerfile(directory, name, exists) ==
    IF ~is_valid_basename(name)
    THEN [path |-> None,
          exc |-> Some([type |-> "ValueError",
                        msg |-> <<"Invalid base name: '">> \o name
                                \o <<"'. Must only contain lowercase letters, digits, dashes, and periods.">>])]
    ELSE IF exists
    THEN [path |-> Some(ContainerfileOf(directory, name)), exc |-> None]
    ELSE [path |-> None,
          exc |-> Some([type |-> "FileNotFoundError",
                        msg |-> name \o <<".Containerfile not found in ">> \o directory])]

\* ------------------------------------------------------------- printing
\* One printed item: `pos` is the position in the build log of a log line
\* (0 for a line the tool itself writes).
Msg(text) == [pos |-> 0, text |-> text \o <<"\n">>]

HeaderMsg(path, tag) == Msg(<<"Building image from ">> \o path \o <<" as ">> \o tag \o <<":">>)
NothingMsg(tag) == Msg(<<"Nothing to do to build image ">> \o tag \o <<". Using cached version.">>)
BuildFailedText(tag) == <<"Failed to build image ">> \o tag \o <<".">>
MountedMsg(dir) == Msg(dir \o <<" is mounted at /mnt">>)
InvalidDirMsg(dir) == Msg(<<"Error: ">> \o dir \o <<" is not a valid directory.">>)
ErrorMsg(e) == Msg(<<"Error: ">> \o e.msg)

\* --------------------------------------------------- build_podman_image
Truthy(opt) == opt # None /\ opt[1] # <<>>

\* Mutant: the cache check without its exemption of STEP 1.
LaterStepNotCached_AnyStep(stp, line) == ~Contains(line, USING_CACHE)

\* line 91: a step beyond STEP 1 is not using the cache
LaterStepNotCached(stp, line) == ~Contains(line, USING_CACHE) /\ ~StartsWith(stp, STEP_1)

\* Mutant: output after STEP 1 is tolerated.
Step1Download_Tolerated(stp, line) == FALSE

\* line 94: STEP 1 triggered a download
Step1Download(stp, line) == StartsWith(stp, STEP_1) /\ ~StartsWith(line, STEP)

\* lines 89-96: whether the scan breaks on `line`
Triggers(stp, line) ==
    Truthy(stp) /\ (LaterStepNotCached(stp[1], line) \/ Step1Download(stp[1], line))

\* lines 99-102
NextStep(line) == IF StartsWith(line, STEP) THEN Some(Strip(line)) ELSE None

build_command(path, tag, context) ==
    <<<<"podman">>, <<"build">>, <<"-f">>, path, <<"-t">>, tag, context>>

\* -------------------------------------------------------- get_shell_env
\* Env entries, one character per element.
EnvPath == <<"P", "A", "T", "H", "=", "/", "u", "s", "r", "/", "b", "i", "n">>
EnvShellBash == <<"S", "H", "E", "L", "L", "=", "/", "b", "i", "n", "/", "b", "a", "s", "h">>
EnvShellEq == <<"S", "H", "E", "L", "L", "=", "a", "=", "b">>
EnvNoEquals == <<"F", "O", "O">>
EnvEntries == {EnvPath, EnvShellBash, EnvShellEq, EnvNoEquals}

SHELL == <<"S", "H", "E", "L", "L">>
BinSh == <<"/bin/sh">>

\* Decoded JSON: an array is a sequence, an object a record.
InspectData ==
    {<<>>}                                                  \* []
    \cup {<<[Id |-> <<"i">>]>>}                             \* no Config
    \cup {<<[Config |-> [Cmd |-> <<>>]]>>}                  \* Config without Env
    \cup {<<[Config |-> [Env |-> e]]>> : e \in SeqsUpTo(EnvEntries, MaxEnv)}

\* What `podman inspect` can answer: its exit status, whether its output is
\* JSON, and the decoded output.
InspectResults ==
    {[rc |-> 1, json |-> FALSE, data |-> <<>>], [rc |-> 0, json |-> FALSE, data |-> <<>>]}
    \cup {[rc |-> 0, json |-> TRUE, data |-> d] : d \in InspectData}

\* The index of the first `sep` in s, 0 when there is none.
RECURSIVE IndexOf(_, _, _)
IndexOf(s, sep, from) ==
    IF from > Len(s) THEN 0
    ELSE IF s[from] = sep THEN from
    ELSE IndexOf(s, sep, from + 1)

\* var.split(sep, 1)
Split1(s, sep) ==
    LET i == IndexOf(s, sep, 1)
    IN IF i = 0 THEN <<s>> ELSE <<SubSeq(s, 1, i - 1), SubSeq(s, i + 1, Len(s))>>

\* lines 22-28: the loop over env_variables
RECURSIVE FindShell(_)
FindShell(env) ==
    IF env = <<>> THEN [value |-> None, exc |-> None, printed |-> <<>>]
    ELSE LET parts == Split1(Head(env), "=")
         IN IF Len(parts) # 2
            THEN [value |-> None,
                  exc |-> Some([type |-> "ValueError",
                                msg |-> <<"not enough values to unpack (expected 2, got 1)">>]),
                  printed |-> <<>>]
            ELSE IF parts[1] = SHELL
            THEN [value |-> Some(parts[2]), exc |-> None, printed |-> <<>>]
            ELSE FindShell(Tail(env))

\* lines 17-19
EnvVariables(data) ==
    IF data # <<>> /\ "Config" \in DOMAIN data[1] /\ "Env" \in DOMAIN data[1].Config
    THEN data[1].Config.Env
    ELSE <<>>

\* The return value (Optional), the exception that escapes (Optional) and what
\* is printed.
get_shell_env(r) ==
    IF r.rc # 0
    THEN [value |-> None, exc |-> None,
          printed |-> <<Msg(<<"Error running podman inspect: CalledProcessError">>)>>]
    ELSE IF ~r.json
    THEN [value |-> None, exc |-> None,
          printed |-> <<Msg(<<"Error decoding JSON: JSONDecodeError">>)>>]
    ELSE FindShell(EnvVariables(r.data))

inspect_command(tag) == <<<<"podman">>, <<"inspect">>, tag>>

\* --------------------------------------------------- run_podman_container
RECURSIVE VolumeArgs(_)
VolumeArgs(vols) ==
    IF vols = <<>> THEN <<>> ELSE <<<<"-v">>, Head(vols)>> \o VolumeArgs(Tail(vols))

\* entrypoint is Optional; additional_args is a list (None is <<>>)
run_command(tag, mount, podman_args, additional_args, entrypoint) ==
    <<<<"podman">>, <<"run">>, <<"-it">>, <<"--rm">>, <<"-v">>, mount \o <<":/mnt">>>>
    \o podman_args
    \o (IF Truthy(entrypoint) THEN <<<<"--entrypoint">>, entrypoint[1]>> ELSE <<>>)
    \o <<tag>>
    \o additional_args

prune_command(tag) == <<<<"podman">>, <<"rmi">>, tag>>

\* ----------------------------------------------------------------- main
NameOk == <<"m", "y">>
NameUpper == <<"M", "y">>
NameNonAscii == <<"U+00E9">>
BaseNames == {NameOk, NameUpper, NameNonAscii, <<>>}

Commands == {"shell", "prune", "run"}
TrailingArgs == {<<>>, <<<<"foo">>, <<"bar">>>>}
Volumes == {<<>>, <<<<"/src:/dst">>>>}

inputVars == <<directory_is_dir, file_exists, command, base_name, run_args, volume>>
buildVars == <<log, proc_stdout, returncode, full_output, cache_used, step>>

MainIdle ==
    /\ pc = "idle"
    /\ directory_is_dir = FALSE /\ file_exists = FALSE
    /\ command = "run" /\ base_name = <<>> /\ run_args = <<>> /\ volume = <<>>
    /\ containerfile_path = None /\ image_name = None
    /\ log = <<>> /\ proc_stdout = <<>> /\ returncode = 0
    /\ full_output = <<>> /\ cache_used = TRUE /\ step = None
    /\ inspect_result = None /\ default_shell = None
    /\ output = <<>> /\ commands = <<>> /\ raised = None /\ exit_code = None

DispIdle ==
    /\ dpc = "idle" /\ argv0 = <<>> /\ argv = <<>>
    /\ command_index = 1 /\ expect_arg_value = FALSE /\ arg_pos = 1

NameIdle == npc = "idle" /\ name_in = <<>> /\ name_ok = FALSE

\* The state when parse_args has returned (line 203).
Init ==
    /\ pc = "start"
    /\ directory_is_dir \in BOOLEAN
    /\ file_exists \in BOOLEAN
    /\ command \in Commands
    /\ base_name \in BaseNames
    /\ run_args \in (IF command = "run" THEN TrailingArgs ELSE {<<>>})
    /\ volume \in Volumes
    /\ containerfile_path = None /\ image_name = None
    /\ log = <<>> /\ proc_stdout = <<>> /\ returncode = 0
    /\ full_output = <<>> /\ cache_used = TRUE /\ step = None
    /\ inspect_result = None /\ default_shell = None
    /\ output = <<>> /\ commands = <<>> /\ raised = None /\ exit_code = None
    /\ DispIdle /\ NameIdle

\* lines 206-209
CheckDirectory ==
    /\ pc = "start"
    /\ IF ~directory_is_dir
       THEN /\ output' = Append(output, InvalidDirMsg(Directory))
            /\ exit_code' = Some(0)
            /\ pc' = "exit"
       ELSE /\ pc' = "locate"
            /\ UNCHANGED <<output, exit_code>>
    /\ UNCHANGED <<inputVars, buildVars, containerfile_path, image_name, inspect_result,
                   default_shell, commands, raised, dispVars, nameVars>>

\* lines 213-216
Locate ==
    /\ pc = "locate"
    /\ LET r == find_containerfile(Directory, base_name, file_exists)
       IN IF r.exc # None
          THEN /\ raised' = r.exc
               /\ pc' = "except"
               /\ UNCHANGED <<containerfile_path, image_name>>
          ELSE /\ containerfile_path' = r.path
               /\ image_name' = Some(get_image_name(base_name))
               /\ pc' = "dispatch"
               /\ UNCHANGED raised
    /\ UNCHANGED <<inputVars, buildVars, inspect_result, default_shell, output, commands,
                   exit_code, dispVars, nameVars>>

\* lines 218-220 and prune_image (147-156); main then returns
Prune ==
    /\ pc = "dispatch" /\ command = "prune"
    /\ \E rc \in {0, 1} :
          output' = output \o
             <<Msg(<<"Pruning image ">> \o image_name[1] \o <<"...">>),
               IF rc = 0
               THEN Msg(<<"Image ">> \o image_name[1] \o <<" removed successfully.">>)
               ELSE Msg(<<"Error pruning image ">> \o image_name[1] \o <<": stderr">>)>>
    /\ commands' = Append(commands, prune_command(image_name[1]))
    /\ exit_code' = Some(0)
    /\ pc' = "exit"
    /\ UNCHANGED <<inputVars, buildVars, containerfile_path, image_name, inspect_result,
                   default_shell, raised, dispVars, nameVars>>

\* lines 223, 71-83: Popen; the subprocess's whole output and exit status
\* are the environment's choice.
StartBuild ==
    /\ pc = "dispatch" /\ command # "prune"
    /\ \E l \in Logs, rc \in {0, 1} :
          /\ log' = l
          /\ proc_stdout' = [i \in 1..Len(l) |-> [pos |-> i, text |-> l[i]]]
          /\ returncode' = rc
    /\ commands' = Append(commands, build_command(containerfile_path[1], image_name[1], Directory))
    /\ full_output' = <<>>
    /\ cache_used' = TRUE
    /\ step' = None
    /\ pc' = "scan"
    /\ UNCHANGED <<inputVars, containerfile_path, image_name, inspect_result, default_shell,
                   output, raised, exit_code, dispVars, nameVars>>

\* lines 86-102: one iteration of the scanning loop
ScanLine ==
    /\ pc = "scan" /\ proc_stdout # <<>>
    /\ LET line == Head(proc_stdout)
       IN /\ proc_stdout' = Tail(proc_stdout)
          /\ full_output' = Append(full_output, line)
          /\ IF Triggers(step, line.text)
             THEN /\ cache_used' = FALSE
                  /\ pc' = "report"
                  /\ UNCHANGED step
             ELSE /\ step' = NextStep(line.text)
                  /\ UNCHANGED <<cache_used, pc>>
    /\ UNCHANGED <<inputVars, log, returncode, containerfile_path, image_name, inspect_result,
                   default_shell, output, commands, raised, exit_code, dispVars, nameVars>>

\* line 86: the stream ends
ScanEof ==
    /\ pc = "scan" /\ proc_stdout = <<>>
    /\ pc' = "report"
    /\ UNCHANGED <<inputVars, buildVars, containerfile_path, image_name, inspect_result,
                   default_shell, output, commands, raised, exit_code, dispVars, nameVars>>

\* Mutant: the line that triggered passthrough is lost at the hand-over.
Passthrough_DropsTrigger(path, tag, buffered, rest) ==
    <<HeaderMsg(path, tag)>> \o SubSeq(buffered, 1, Len(buffered) - 1) \o rest

\* lines 105-109: what passthrough prints
Passthrough(path, tag, buffered, rest) == <<HeaderMsg(path, tag)>> \o buffered \o rest

\* lines 104-111
Report ==
    /\ pc = "report"
    /\ IF ~cache_used
       THEN /\ output' = output \o Passthrough(containerfile_path[1], image_name[1],
                                               full_output, proc_stdout)
            /\ proc_stdout' = <<>>
       ELSE /\ output' = Append(output, NothingMsg(image_name[1]))
            /\ UNCHANGED proc_stdout
    /\ pc' = "wait"
    /\ UNCHANGED <<inputVars, log, returncode, full_output, cache_used, step,
                   containerfile_path, image_name, inspect_result, default_shell,
                   commands, raised, exit_code, dispVars, nameVars>>

\* Mutant: a failed build does not replay the buffer.
FailureReplay_Never(rc, buffered) == <<>>

\* lines 115-118: what is printed once the exit status is known
FailureReplay(rc, buffered) == IF rc # 0 THEN buffered ELSE <<>>

\* lines 113-119
Wait ==
    /\ pc = "wait"
    /\ output' = output \o FailureReplay(returncode, full_output)
    /\ IF returncode # 0
       THEN /\ raised' = Some([type |-> "RuntimeError", msg |-> BuildFailedText(image_name[1])])
            /\ pc' = "except"
       ELSE /\ pc' = "built"
            /\ UNCHANGED raised
    /\ UNCHANGED <<inputVars, buildVars, containerfile_path, image_name, inspect_result,
                   default_shell, commands, exit_code, dispVars, nameVars>>

\* lines 230-235
ProbeShell ==
    /\ pc = "built" /\ command = "shell"
    /\ \E r \in InspectResults :
          LET got == get_shell_env(r)
          IN /\ inspect_result' = Some(r)
             /\ output' = output \o got.printed
             /\ IF got.exc # None
                THEN /\ raised' = got.exc
                     /\ pc' = "except"
                     /\ UNCHANGED default_shell
                ELSE /\ default_shell' = (IF got.value = None THEN Some(BinSh) ELSE got.value)
                     /\ pc' = "shell"
                     /\ UNCHANGED raised
    /\ commands' = Append(commands, inspect_command(image_name[1]))
    /\ UNCHANGED <<inputVars, buildVars, containerfile_path, image_name, exit_code,
                   dispVars, nameVars>>

\* lines 225-228, 237 and run_podman_container (121-145); main then returns
RunShell ==
    /\ pc = "shell"
    /\ output' = Append(output, MountedMsg(Directory))
    /\ commands' = Append(commands,
                          run_command(image_name[1], Directory, VolumeArgs(volume), <<>>,
                                      default_shell))
    /\ exit_code' = Some(0)
    /\ pc' = "exit"
    /\ UNCHANGED <<inputVars, buildVars, containerfile_path, image_name, inspect_result,
                   default_shell, raised, dispVars, nameVars>>

\* lines 225-228, 238-240 and run_podman_container (121-145); main then returns
RunCommand ==
    /\ pc = "built" /\ command = "run"
    /\ output' = Append(output, MountedMsg(Directory))
    /\ commands' = Append(commands,
                          run_command(image_name[1], Directory, VolumeArgs(volume), run_args,
                                      None))
    /\ exit_code' = Some(0)
    /\ pc' = "exit"
    /\ UNCHANGED <<inputVars, buildVars, containerfile_path, image_name, inspect_result,
                   default_shell, raised, dispVars, nameVars>>

\* lines 242-244: print the error and re-raise; the interpreter exits with 1
HandleException ==
    /\ pc = "except"
    /\ output' = Append(output, ErrorMsg(raised[1]))
    /\ exit_code' = Some(1)
    /\ pc' = "exit"
    /\ UNCHANGED <<inputVars, buildVars, containerfile_path, image_name, inspect_result,
                   default_shell, commands, raised, dispVars, nameVars>>

Next ==
    \/ CheckDirectory
    \/ Locate
    \/ Prune
    \/ StartBuild
    \/ ScanLine
    \/ ScanEof
    \/ Report
    \/ Wait
    \/ ProbeShell
    \/ RunShell
    \/ RunCommand
    \/ HandleException

Spec == Init /\ [][Next]_vars

\* ------------------------------------------------- the claims, under Spec
\* The build log as printed items, in order.
LogItems(l) == [i \in 1..Len(l) |-> [pos |-> i, text |-> l[i]]]

\* How often position i of the build log has been printed.
TimesPrinted(i) == Cardinality({k \in DOMAIN output : output[k].pos = i})

\* The log has two adjacent lines (L, M), L a STEP line, with (a) L no
\* `STEP 1/` line and M without "--> Using cache", or (b) L a `STEP 1/` line
\* and M no STEP line.
HasTriggerPair(l) ==
    \E i \in 1..(Len(l) - 1) :
        /\ StartsWith(l[i], STEP)
        /\ \/ ~StartsWith(l[i], STEP_1) /\ ~Contains(l[i + 1], USING_CACHE)
           \/ StartsWith(l[i], STEP_1) /\ ~StartsWith(l[i + 1], STEP)

\* The base-name rule ^[a-z0-9.-]{1,128}$
MatchesNameRule(name) ==
    /\ 1 <= Len(name) /\ Len(name) <= 128
    /\ \A i \in 1..Len(name) : name[i] \in AsciiLower \cup AsciiDigit \cup {"-", "."}

\* C1 as stated: for the six-line sample log (STEP 1/3, a pull line, STEP 2/3,
\* cache, STEP 3/3, cache) and exit status 0 the build prints only the
\* "Nothing to do" summary.
C1_SamplePullSuppressed ==
    (pc = "built" /\ log = SampleLogPull) => output = <<NothingMsg(image_name[1])>>

\* C1 amended: for that log and exit status 0 the pull line after STEP 1/3
\* switches the scanner to passthrough at the second line; the build prints the
\* header and then all six log lines in order, and no summary.
C1_SamplePullPassthrough ==
    (pc = "built" /\ log = SampleLogPull) =>
        /\ ~cache_used
        /\ Len(full_output) = 2
        /\ output = <<HeaderMsg(containerfile_path[1], image_name[1])>> \o LogItems(log)

C1_Witness == pc = "built" /\ log = SampleLogPull /\ Len(output) = 7

\* C2: with exit status 0 the build prints only the one-line summary exactly
\* when the log has no trigger pair of adjacent lines.
C2_SuppressedIffNoTriggerPair ==
    pc = "built" => (output = <<NothingMsg(image_name[1])>> <=> ~HasTriggerPair(log))

C2_Witness ==
    /\ pc = "built" /\ log = SampleLogNoPull
    /\ output = <<NothingMsg(image_name[1])>>

\* C3: when a later step's next line lacks the cache marker and the build exits
\* 0, the output is one header naming the Containerfile and the tag, then every
\* log line once, in order, from the first line of the log.
C3_PassthroughExact ==
    (pc = "built" /\ ~cache_used /\ ~StartsWith(step[1], STEP_1)) =>
        /\ Len(output) = Len(log) + 1
        /\ output[1].pos = 0
        /\ Contains(output[1].text, containerfile_path[1])
        /\ Contains(output[1].text, image_name[1])
        /\ Tail(output) = LogItems(log)

C3_Witness ==
    /\ pc = "built" /\ ~cache_used /\ ~StartsWith(step[1], STEP_1)
    /\ Len(full_output) >= 2 /\ Len(log) > Len(full_output)

\* C4: when the build exits non-zero, every log line has been printed when the
\* failure is raised, the error raised names the image tag, and the process
\* ends with a non-zero exit status.
C4_FailureShowsLog ==
    (returncode # 0 /\ pc \notin {"scan", "report", "wait"}) =>
        /\ pc \in {"except", "exit"}
        /\ raised # None
        /\ raised[1].type = "RuntimeError"
        /\ Contains(raised[1].msg, image_name[1])
        /\ \A i \in 1..Len(log) :
              \E k \in DOMAIN output : output[k] = [pos |-> i, text |-> log[i]]
        /\ pc = "exit" => (exit_code # None /\ exit_code[1] # 0)

C4_Witness ==
    /\ pc = "exit" /\ returncode # 0 /\ cache_used /\ log = SampleLogNoPull

\* C10 as stated: no line of the build log is printed more than once, whatever
\* the exit status.
C10_NoLineTwice == \A i \in 1..Len(log) : TimesPrinted(i) <= 1

\* The names of the external commands run so far, in order.
CommandNames == [i \in DOMAIN commands |-> commands[i][2][1]]

ErrorPrinted == \E k \in DOMAIN output : StartsWith(output[k].text, <<"Error: ">>)

\* The invocation ends in one of the four fatal error kinds.
FatalError ==
    \/ ~directory_is_dir
    \/ ~MatchesNameRule(base_name)
    \/ ~file_exists
    \/ command # "prune" /\ returncode # 0

\* C5 as stated: the exit status is 0 on success and non-zero for an invalid
\* directory, an invalid base name, a missing Containerfile and a failed build,
\* and in those four cases an "Error: " line has been printed.
C5_ExitStatus ==
    pc = "exit" =>
        IF FatalError
        THEN exit_code[1] # 0 /\ ErrorPrinted
        ELSE exit_code[1] = 0

\* The command trace C6 gives for an invocation that has ended.
ClaimedTrace ==
    IF ~directory_is_dir \/ ~MatchesNameRule(base_name) \/ ~file_exists THEN <<>>
    ELSE IF command = "prune" THEN <<"rmi">>
    ELSE IF returncode # 0 THEN <<"build">>
    ELSE IF command = "shell" THEN <<"build", "inspect", "run">>
    ELSE <<"build", "run">>

\* C6 as stated: no external command occurs twice, and an invocation that has
\* ended ran exactly the commands its case prescribes, in order.
C6_CommandTrace ==
    /\ \A i, j \in DOMAIN commands : CommandNames[i] = CommandNames[j] => i = j
    /\ pc = "exit" => CommandNames = ClaimedTrace

\* The shell C9 gives for an answer of `podman inspect`: the text after the
\* first '=' of the first SHELL= entry, /bin/sh when there is none.
RECURSIVE FirstShellEntry(_)
FirstShellEntry(env) ==
    IF env = <<>> THEN None
    ELSE IF StartsWith(Head(env), SHELL \o <<"=">>)
    THEN Some(SubSeq(Head(env), Len(SHELL) + 2, Len(Head(env))))
    ELSE FirstShellEntry(Tail(env))

ClaimedShell(r) ==
    LET found == IF r.rc = 0 /\ r.json THEN FirstShellEntry(EnvVariables(r.data)) ELSE None
    IN IF found = None THEN BinSh ELSE found[1]

\* C9 as stated: whatever `podman inspect` answers, get_shell_env does not
\* raise; the shell is the first SHELL= entry's value, /bin/sh when it finds
\* none, and the container is then run with that entrypoint.
C9_ProbeNeverRaises ==
    inspect_result # None =>
        /\ raised = None
        /\ default_shell = Some(ClaimedShell(inspect_result[1]))
        /\ pc = "exit" =>
              /\ CommandNames = <<"build", "inspect", "run">>
              /\ \E k \in DOMAIN commands[3] :
                    /\ commands[3][k] = <<"--entrypoint">>
                    /\ commands[3][k + 1] = default_shell[1]

\* ------------------------------------------- is_valid_basename on its own
NameChars == {"a", "z", "0", "9", "-", ".", "A", "_", "/", "U+00E9", "U+00C9", "U+0663"}

\* Short names of every shape, and names around the length limit.
NameInputs ==
    SeqsUpTo(NameChars, MaxPad)
    \cup {Repeat("a", n) \o <<c>> :
            n \in (MaxNameLen - 1 - MaxPad)..(MaxNameLen - 1 + MaxPad), c \in NameChars}

InitName ==
    /\ npc = "call"
    /\ name_in \in NameInputs
    /\ name_ok = FALSE
    /\ MainIdle /\ DispIdle

\* lines 37-48
Validate ==
    /\ npc = "call"
    /\ name_ok' = is_valid_basename(name_in)
    /\ npc' = "done"
    /\ UNCHANGED <<name_in, mainVars, dispVars>>

NextName == Validate

SpecName == InitName /\ [][NextName]_vars

\* C8 as stated: is_valid_basename accepts exactly the strings matching
\* ^[a-z0-9.-]{1,128}$.
C8_ValidIffMatchesRule == npc = "done" => (name_ok <=> MatchesNameRule(name_in))

\* ------------------------------------------------------- the dispatcher
TokProg == <<"t", "o", "o", "l">>
TokD == <<"-", "d">>
TokDirEq == <<"-", "-", "d", "i", "r", "e", "c", "t", "o", "r", "y", "=", "/", "t", "m", "p">>
TokTmp == <<"/", "t", "m", "p">>
TokRun == <<"r", "u", "n">>
TokShell == <<"s", "h", "e", "l", "l">>
TokPrune == <<"p", "r", "u", "n", "e">>
TokMything == <<"m", "y", "t", "h", "i", "n", "g">>
TokFoo == <<"f", "o", "o">>

Tokens == {TokD, TokDirEq, TokTmp, TokRun, TokShell, TokMything, TokFoo}
KnownCommands == {TokShell, TokPrune, TokRun}

\* sys.argv when main is entered.
InitDispatch ==
    /\ dpc = "scan"
    /\ argv0 \in {<<TokProg>> \o a : a \in SeqsUpTo(Tokens, MaxArgv)}
    /\ argv = argv0
    /\ command_index = 1
    /\ expect_arg_value = FALSE
    /\ arg_pos = 1
    /\ MainIdle /\ NameIdle

\* lines 191-196: one iteration of `for arg in sys.argv[1:]`.  Python indexes
\* from 0: sys.argv[i] is argv[i + 1] here.
ScanArg ==
    /\ dpc = "scan" /\ arg_pos < Len(argv)
    /\ LET arg == argv[arg_pos + 1]
       IN IF expect_arg_value \/ StartsWith(arg, <<"-">>)
          THEN /\ command_index' = command_index + 1
               /\ expect_arg_value' = ~expect_arg_value
               /\ arg_pos' = arg_pos + 1
               /\ UNCHANGED dpc
          ELSE /\ dpc' = "insert"
               /\ UNCHANGED <<command_index, expect_arg_value, arg_pos>>
    /\ UNCHANGED <<argv0, argv, mainVars, nameVars>>

\* line 191: sys.argv[1:] is exhausted
ScanEnd ==
    /\ dpc = "scan" /\ arg_pos >= Len(argv)
    /\ dpc' = "insert"
    /\ UNCHANGED <<argv0, argv, command_index, expect_arg_value, arg_pos, mainVars, nameVars>>

\* lines 199-201
InsertRun ==
    /\ dpc = "insert"
    /\ IF Len(argv) > command_index /\ argv[command_index + 1] \notin KnownCommands
       THEN argv' = SubSeq(argv, 1, command_index) \o <<TokRun>>
                    \o SubSeq(argv, command_index + 1, Len(argv))
       ELSE UNCHANGED argv
    /\ dpc' = "parse"
    /\ UNCHANGED <<argv0, command_index, expect_arg_value, arg_pos, mainVars, nameVars>>

NextDispatch == ScanArg \/ ScanEnd \/ InsertRun

SpecDispatch == InitDispatch /\ [][NextDispatch]_vars

\* The global options that take their value as the next token.
SeparateOptions == {TokD, <<"-", "-", "d", "i", "r", "e", "c", "t", "o", "r", "y">>,
                    <<"-", "v">>, <<"-", "-", "v", "o", "l", "u", "m", "e">>}

\* The position in a (from i on) of the first token that is neither a global
\* option nor an option's value; 0 when there is none.
RECURSIVE FirstNonOption(_, _)
FirstNonOption(a, i) ==
    IF i > Len(a) THEN 0
    ELSE IF a[i] \in SeparateOptions THEN FirstNonOption(a, i + 2)
    ELSE IF StartsWith(a[i], <<"-">>) THEN FirstNonOption(a, i + 1)
    ELSE i

\* Every separate-value option of a before position t has a value that is no
\* option itself: the argument parser accepts the global options.
RECURSIVE OptionsAccepted(_, _)
OptionsAccepted(a, i) ==
    IF i > Len(a) \/ ~StartsWith(a[i], <<"-">>) THEN TRUE
    ELSE IF a[i] \in SeparateOptions
    THEN i + 1 <= Len(a) /\ ~StartsWith(a[i + 1], <<"-">>) /\ OptionsAccepted(a, i + 2)
    ELSE OptionsAccepted(a, i + 1)

\* The argument vector C7 gives: `run` before the first non-option token
\* unless that token is a sub-command name or there is none.
ClaimedArgv(a) ==
    LET t == FirstNonOption(a, 2)
    IN IF t = 0 \/ a[t] \in KnownCommands THEN a
       ELSE SubSeq(a, 1, t - 1) \o <<TokRun>> \o SubSeq(a, t, Len(a))

\* C7 as stated: for global options in any form the parser accepts, the
\* dispatcher inserts `run` right before the first non-option token when that
\* is no sub-command name, and leaves the argument vector unchanged otherwise.
C7_ImplicitRun ==
    (dpc = "parse" /\ OptionsAccepted(argv0, 2)) => argv = ClaimedArgv(argv0)

====
